---- MODULE Spec2Model ----
(***************************************************************************)
(* Matrix multiplication benchmark (C implementation).                     *)
(*                                                                         *)
(*   code/c/matrix_mult.c   the kernel, matrix_multiplication              *)
(*   code/c/benchmark.c     the harness, main and its helpers              *)
(*                                                                         *)
(* Strings are sequences of one-character strings, except file paths,      *)
(* which are opaque names.  C int is 32 bits wide and size_t 64 bits wide  *)
(* (an x64 Windows build, the platform benchmark.c includes windows.h      *)
(* for); both are computed on base-256 limbs, because the products the     *)
(* program forms do not fit the model checker's own integers.              *)
(***************************************************************************)
EXTENDS Integers, Sequences, FiniteSets, TLC

VARIABLES
    pc,          \* position of main (or "crashed" after abnormal termination)
    argv,        \* argv[1..argc-1]
    disk0,       \* history: the file system main was entered with
    p,           \* benchmark.c:130  parse pointer into argv[1], 0 is NULL
    sizes,       \* benchmark.c:122  sizes[0..nsizes-1]
    nsizes,      \* benchmark.c:123
    runs,        \* benchmark.c:124
    out,         \* benchmark.c:125
    seed,        \* benchmark.c:126
    holdrand,    \* state of the C runtime's rand(), <<high 16 bits, low 16 bits>>
    srand_calls, \* number of srand calls so far
    draws,       \* history: one entry per rand() call, in call order
    fs,          \* the file system: path -> sequence of lines, or NoFile
    f,           \* the FILE* of main's per-record fopen: path, or NULL
    run_id,      \* benchmark.c:161
    ncpu,        \* benchmark.c:164
    si,          \* benchmark.c:167
    n,           \* benchmark.c:168
    A, B, C,     \* benchmark.c:171-173  the three buffers
    heap,        \* names of the buffers currently allocated
    i,           \* benchmark.c:176
    r,           \* benchmark.c:182
    smp,         \* mem_before, cpu0, t0, t1, cpu1, mem_after of the current run
    clk,         \* environment: performance counter, in milliseconds
    cpu_time,    \* environment: process CPU time, in milliseconds
    faults,      \* environment: number of platform API calls that failed so far
    failed,      \* history: the samples of the current run whose API call failed
    console,     \* lines printed by printf
    exit_status, \* main's return value, NoExit while running
    ub,          \* history: undefined behaviour executed so far
    kpc, kn, kA, kB, kC, kub   \* a direct call of the kernel: matrix_mult.h:49

vars == <<pc, argv, disk0, p, sizes, nsizes, runs, out, seed, holdrand, srand_calls,
          draws, fs, f, run_id, ncpu, si, n, A, B, C, heap, i, r, smp, clk,
          cpu_time, faults, failed, console, exit_status, ub,
          kpc, kn, kA, kB, kC, kub>>

harnessVars == <<pc, argv, disk0, p, sizes, nsizes, runs, out, seed, holdrand,
                 srand_calls, draws, fs, f, run_id, ncpu, si, n, A, B, C, heap,
                 i, r, smp, clk, cpu_time, faults, failed, console,
                 exit_status, ub>>

kernelVars == <<kpc, kn, kA, kB, kC, kub>>

(***************************************************************************)
(* Fixed-width integer arithmetic.                                         *)
(***************************************************************************)
INT_MAX == 2147483647
INT_MIN == -INT_MAX - 1
IntLimbs == 4
SizeLimbs == 8
SizeofFloat == 4

\* Two's complement of the int x, sign-extended to k base-256 limbs,
\* least significant first: the conversion (size_t)n for k = SizeLimbs.
ToLimbs(x, k) ==
    [j \in 1..k |-> IF j <= IntLimbs THEN (x \div (256 ^ (j - 1))) % 256
                    ELSE IF x < 0 THEN 255 ELSE 0]

RECURSIVE ColSum(_, _, _, _)
ColSum(a, b, j, t) ==
    IF t > j THEN 0 ELSE a[t] * b[j + 1 - t] + ColSum(a, b, j, t + 1)

RECURSIVE MulFrom(_, _, _, _, _)
MulFrom(a, b, k, j, carry) ==
    IF j > k THEN <<>>
    ELSE LET s == carry + ColSum(a, b, j, 1)
         IN <<s % 256>> \o MulFrom(a, b, k, j + 1, s \div 256)

\* a * b modulo 256^k
MulLimbs(a, b, k) == MulFrom(a, b, k, 1, 0)

RECURSIVE LimbsCmp(_, _, _)
\* -1, 0, 1 as a < b, a = b, a > b (unsigned), comparing from limb j down
LimbsCmp(a, b, j) ==
    IF j = 0 THEN 0
    ELSE IF a[j] < b[j] THEN -1
    ELSE IF a[j] > b[j] THEN 1
    ELSE LimbsCmp(a, b, j - 1)

LimbsLE(a, b) == LimbsCmp(a, b, Len(a)) <= 0

\* The int a 4-limb two's complement pattern stands for.
FromLimbs(l) ==
    l[1] + 256 * l[2] + 65536 * l[3]
         + 16777216 * (IF l[4] >= 128 THEN l[4] - 256 ELSE l[4])

Small(x) == -32768 < x /\ x < 32768

\* a * b in int: val is the product reduced to 32 bits, ovf says that the
\* mathematical product is not representable (signed overflow: undefined).
IntMul(a, b) ==
    IF Small(a) /\ Small(b)
    THEN [val |-> a * b, ovf |-> FALSE]
    ELSE LET w == FromLimbs(MulLimbs(ToLimbs(a, IntLimbs), ToLimbs(b, IntLimbs), IntLimbs))
             exact == MulLimbs(ToLimbs(a, SizeLimbs), ToLimbs(b, SizeLimbs), SizeLimbs)
         IN [val |-> w, ovf |-> ToLimbs(w, SizeLimbs) # exact]

\* a + b in int, as IntMul
IntAdd(a, b) ==
    IF b > 0 /\ a > INT_MAX - b
    THEN [val |-> (a - INT_MAX - 1) + (b - INT_MAX - 1), ovf |-> TRUE]
    ELSE IF b < 0 /\ a < INT_MIN - b
    THEN [val |-> (a + INT_MAX + 1) + (b + INT_MAX + 1), ovf |-> TRUE]
    ELSE [val |-> a + b, ovf |-> FALSE]

\* (size_t)n * (size_t)n * sizeof(float), modulo 2^64
AllocBytes(m) ==
    IF 0 <= m /\ m < 16384
    THEN ToLimbs(m * m * SizeofFloat, SizeLimbs)
    ELSE MulLimbs(MulLimbs(ToLimbs(m, SizeLimbs), ToLimbs(m, SizeLimbs), SizeLimbs),
                  ToLimbs(SizeofFloat, SizeLimbs), SizeLimbs)

(***************************************************************************)
(* Buffers.  A buffer is what malloc returned: null, or a block of bytes   *)
(* bytes whose float cells written so far are the domain of data.          *)
(***************************************************************************)
EmptyData == [x \in {} |-> 0]

\* the number of float cells a block of bytes bytes holds, as far as an int
\* index can tell: huge when it holds more than INT_MAX cells
CellsOf(bytes) ==
    IF bytes[5] >= 2 \/ bytes[6] # 0 \/ bytes[7] # 0 \/ bytes[8] # 0
    THEN [huge |-> TRUE, cells |-> INT_MAX]
    ELSE [huge |-> FALSE,
          cells |-> (bytes[1] \div SizeofFloat) + 64 * bytes[2] + 16384 * bytes[3]
                    + 4194304 * bytes[4] + 1073741824 * bytes[5]]

NullBuf == [null |-> TRUE, bytes |-> ToLimbs(0, SizeLimbs), huge |-> FALSE,
            cells |-> 0, data |-> EmptyData]
Block(bytes) == [null |-> FALSE, bytes |-> bytes, huge |-> CellsOf(bytes).huge,
                 cells |-> CellsOf(bytes).cells, data |-> EmptyData]

\* float cell idx lies inside the block
InBounds(buf, idx) == ~buf.null /\ idx >= 0 /\ (buf.huge \/ idx < buf.cells)

Store(buf, idx, v) ==
    [buf EXCEPT !.data = [x \in DOMAIN buf.data \cup {idx} |->
                              IF x = idx THEN v ELSE buf.data[x]]]

(***************************************************************************)
(* C library string functions.                                             *)
(***************************************************************************)
DigitVal ==
    "0" :> 0 @@ "1" :> 1 @@ "2" :> 2 @@ "3" :> 3 @@ "4" :> 4 @@
    "5" :> 5 @@ "6" :> 6 @@ "7" :> 7 @@ "8" :> 8 @@ "9" :> 9

IsDigit(c) == c \in DOMAIN DigitVal
IsSpace(c) == c \in {" ", "\t"}

RECURSIVE SkipSpace(_)
SkipSpace(s) == IF s # <<>> /\ IsSpace(Head(s)) THEN SkipSpace(Tail(s)) ELSE s

RECURSIVE Accum(_, _, _)
\* the digits at the front of s appended to the magnitude mag; big once the
\* magnitude exceeds INT_MAX
Accum(s, mag, big) ==
    IF s = <<>> \/ ~IsDigit(Head(s)) THEN [mag |-> mag, big |-> big]
    ELSE LET d == DigitVal[Head(s)]
         IN IF big \/ mag > (INT_MAX - d) \div 10
            THEN Accum(Tail(s), INT_MAX, TRUE)
            ELSE Accum(Tail(s), mag * 10 + d, FALSE)

\* (int)strtol(s, NULL, 10) with a 32-bit long: white space, an optional
\* sign, then digits; 0 when there is no digit; LONG_MAX or LONG_MIN when
\* the value is out of range.
strtol(s) ==
    LET t == SkipSpace(s)
        signed == t # <<>> /\ Head(t) \in {"-", "+"}
        neg == t # <<>> /\ Head(t) = "-"
        a == Accum(IF signed THEN Tail(t) ELSE t, 0, FALSE)
    IN IF neg THEN (IF a.big THEN INT_MIN ELSE -a.mag)
       ELSE (IF a.big THEN INT_MAX ELSE a.mag)

atoi(s) == strtol(s)

\* strchr(p, ','): the position of the first comma of s at or after q, 0 (NULL)
\* when there is none
strchr(s, q) ==
    IF \E k \in q..Len(s) : s[k] = ","
    THEN CHOOSE k \in q..Len(s) : s[k] = "," /\ \A m \in q..(k - 1) : s[m] # ","
    ELSE 0

(***************************************************************************)
(* main: configuration, benchmark.c:121-152                                *)
(***************************************************************************)
MaxSizes == 64
sizes_default == <<64, 128, 256, 512, 1024>>
DefaultRuns == 3
DefaultOut == "results_raw.csv"
DefaultSeed == 27
HEADER == [kind |-> "header",
           text |-> "run_id;language;size;run_idx;time_ms;cpu_pct;peak_mib\n"]

NULL == [open |-> FALSE, path |-> "", buf |-> <<>>]
NoFile == [exists |-> FALSE, lines |-> <<>>]
File(lines) == [exists |-> TRUE, lines |-> lines]

argc == Len(argv) + 1

\* nsizes <= 64 instead of nsizes < 64
SizesLoopCondOffByOne(s, q, cnt) == q <= Len(s) /\ cnt <= MaxSizes

\* benchmark.c:131  while (*p && nsizes < 64)
SizesLoopCond(s, q, cnt) == q <= Len(s) /\ cnt < MaxSizes

\* benchmark.c:129  if (argc > 1 && argv[1][0])
ParseBegin ==
    /\ pc = "args"
    /\ IF argc > 1 /\ argv[1] # <<>>
       THEN p' = 1 /\ pc' = "parse"
       ELSE p' = p /\ pc' = "defaults"
    /\ UNCHANGED <<argv, disk0, sizes, nsizes, runs, out, seed, holdrand, srand_calls,
                   draws, fs, f, run_id, ncpu, si, n, A, B, C, heap, i, r, smp,
                   clk, cpu_time, faults, failed, console, exit_status, ub>>
    /\ UNCHANGED kernelVars

\* benchmark.c:131-136  one evaluation of the loop condition and, when it
\* holds, one iteration of the body
ParseToken ==
    /\ pc = "parse"
    /\ IF SizesLoopCond(argv[1], p, nsizes)
       THEN /\ sizes' = Append(sizes, strtol(SubSeq(argv[1], p, Len(argv[1]))))
            /\ nsizes' = nsizes + 1
            /\ LET q == strchr(argv[1], p)
               IN IF q = 0
                  THEN p' = 0 /\ pc' = "defaults"
                  ELSE p' = q + 1 /\ pc' = "parse"
       ELSE /\ pc' = "defaults"
            /\ UNCHANGED <<sizes, nsizes, p>>
    /\ UNCHANGED <<argv, disk0, runs, out, seed, holdrand, srand_calls,
                   draws, fs, f, run_id, ncpu, si, n, A, B, C, heap, i, r, smp,
                   clk, cpu_time, faults, failed, console, exit_status, ub>>
    /\ UNCHANGED kernelVars

\* benchmark.c:140-143
DefaultSizes ==
    /\ pc = "defaults"
    /\ IF nsizes = 0
       THEN sizes' = sizes_default /\ nsizes' = Len(sizes_default)
       ELSE UNCHANGED <<sizes, nsizes>>
    /\ pc' = "runs"
    /\ UNCHANGED <<argv, disk0, p, runs, out, seed, holdrand, srand_calls,
                   draws, fs, f, run_id, ncpu, si, n, A, B, C, heap, i, r, smp,
                   clk, cpu_time, faults, failed, console, exit_status, ub>>
    /\ UNCHANGED kernelVars

\* benchmark.c:146
ParseRuns ==
    /\ pc = "runs"
    /\ runs' = IF argc > 2 THEN atoi(argv[2]) ELSE runs
    /\ pc' = "out"
    /\ UNCHANGED <<argv, disk0, p, sizes, nsizes, out, seed, holdrand, srand_calls,
                   draws, fs, f, run_id, ncpu, si, n, A, B, C, heap, i, r, smp,
                   clk, cpu_time, faults, failed, console, exit_status, ub>>
    /\ UNCHANGED kernelVars

\* benchmark.c:149
ParseOut ==
    /\ pc = "out"
    /\ out' = IF argc > 3 THEN argv[3] ELSE out
    /\ pc' = "seed"
    /\ UNCHANGED <<argv, disk0, p, sizes, nsizes, runs, seed, holdrand, srand_calls,
                   draws, fs, f, run_id, ncpu, si, n, A, B, C, heap, i, r, smp,
                   clk, cpu_time, faults, failed, console, exit_status, ub>>
    /\ UNCHANGED kernelVars

\* benchmark.c:152
ParseSeed ==
    /\ pc = "seed"
    /\ seed' = IF argc > 4 THEN atoi(argv[4]) ELSE seed
    /\ pc' = "srand"
    /\ UNCHANGED <<argv, disk0, p, sizes, nsizes, runs, out, holdrand, srand_calls,
                   draws, fs, f, run_id, ncpu, si, n, A, B, C, heap, i, r, smp,
                   clk, cpu_time, faults, failed, console, exit_status, ub>>
    /\ UNCHANGED kernelVars

(***************************************************************************)
(* The kernel, matrix_mult.c:32-54.  Ab, Bb, Cb are buffers, m is n.  The   *)
(* result is the output buffer after the call and the undefined behaviour   *)
(* the call executed (an access outside a buffer or to a cell never         *)
(* written, a signed overflow of an index).                                 *)
(***************************************************************************)
Flag(cond, name) == IF cond THEN {name} ELSE {}

\* the undefined behaviour of a store to cell idx of the buffer called name
WriteFault(buf, idx, name) ==
    IF buf.null THEN {<<"null_write", name>>}
    ELSE IF ~InBounds(buf, idx) THEN {<<"oob_write", name>>}
    ELSE {}

\* the undefined behaviour of a load of cell idx of the buffer called name
ReadFault(buf, idx, name) ==
    IF buf.null THEN {<<"null_read", name>>}
    ELSE IF ~InBounds(buf, idx) THEN {<<"oob_read", name>>}
    ELSE IF idx \notin DOMAIN buf.data THEN {<<"uninit_read", name>>}
    ELSE {}

Read(buf, idx) == IF ReadFault(buf, idx, "") = {} THEN buf.data[idx] ELSE 0
Overflow == <<"signed_overflow", "int">>

\* float values are kept exact (rounding is not represented).  A cell of A
\* or B holds a number below 2^15; an accumulator holds <<high, low>> in
\* base 2^30, so that a sum of products fits whatever n is.
Wide(x) == <<x \div 1073741824, x % 1073741824>>

\* matrix_mult.c:45  acc += a * b
MulAdd(acc, a, b) ==
    LET s == acc[2] + a * b
    IN <<acc[1] + s \div 1073741824, s % 1073741824>>

\* matrix_mult.c:35  int row = i * n
RowOffset(ii, m) == IntMul(ii, m)

\* matrix_mult.c:45  the index of A[i,k]
AIndex(row, k) == IntAdd(row, k)

\* the index of B[j,k] instead of B[k,j]
BIndexTransposed(k, m, j) ==
    LET jm == IntMul(j, m)
        s == IntAdd(jm.val, k)
    IN [val |-> s.val, ovf |-> jm.ovf \/ s.ovf]

\* matrix_mult.c:45  the index of B[k,j]
BIndex(k, m, j) ==
    LET km == IntMul(k, m)
        s == IntAdd(km.val, j)
    IN [val |-> s.val, ovf |-> km.ovf \/ s.ovf]

\* matrix_mult.c:51  the index of C[i,j]
CIndex(row, j) == IntAdd(row, j)

RECURSIVE KLoop(_, _, _, _, _, _, _)
\* matrix_mult.c:40-46  the loop over k, from k on, with accumulator acc
KLoop(Ab, Bb, m, row, j, k, st) ==
    IF k < m
    THEN LET ia == AIndex(row, k)
             ib == BIndex(k, m, j)
         IN KLoop(Ab, Bb, m, row, j, k + 1,
                  [acc |-> MulAdd(st.acc, Read(Ab, ia.val), Read(Bb, ib.val)),
                   ub |-> st.ub \cup Flag(ia.ovf \/ ib.ovf, Overflow)
                                \cup ReadFault(Ab, ia.val, "A")
                                \cup ReadFault(Bb, ib.val, "B")])
    ELSE st

RECURSIVE JLoop(_, _, _, _, _, _)
\* matrix_mult.c:37-52  the loop over j, from j on
JLoop(Ab, Bb, m, row, j, st) ==
    IF j < m
    THEN LET dot == KLoop(Ab, Bb, m, row, j, 0, [acc |-> Wide(0), ub |-> st.ub])
             ic == CIndex(row, j)
         IN JLoop(Ab, Bb, m, row, j + 1,
                  [C |-> IF InBounds(st.C, ic.val) THEN Store(st.C, ic.val, dot.acc)
                         ELSE st.C,
                   ub |-> dot.ub \cup Flag(ic.ovf, Overflow)
                                 \cup WriteFault(st.C, ic.val, "C")])
    ELSE st

RECURSIVE ILoop(_, _, _, _, _)
\* matrix_mult.c:34-53  the loop over i, from ii on
ILoop(Ab, Bb, m, ii, st) ==
    IF ii < m
    THEN LET row == RowOffset(ii, m)
         IN ILoop(Ab, Bb, m, ii + 1,
                  JLoop(Ab, Bb, m, row.val, 0,
                        [C |-> st.C, ub |-> st.ub \cup Flag(row.ovf, Overflow)]))
    ELSE st

matrix_multiplication(Ab, Bb, Cb, m) == ILoop(Ab, Bb, m, 0, [C |-> Cb, ub |-> {}])

(***************************************************************************)
(* The C runtime's rand and srand (the Windows C runtime, which            *)
(* benchmark.c is written against): holdrand = holdrand * 214013 + 2531011 *)
(* modulo 2^32, rand() = (holdrand >> 16) & 0x7fff.                        *)
(***************************************************************************)
RAND_MAX == 32767

\* srand(seed): holdrand = (unsigned)seed
SrandState(sd) == <<(sd \div 65536) % 65536, sd % 65536>>

\* the state after one rand() call
RandNext(h) ==
    LET t == h[2] * 17405 + 40643
    IN <<(t \div 65536 + h[2] * 3 + h[1] * 17405 + 38) % 65536, t % 65536>>

\* what the rand() call that left the state h returned
RandValue(h) == h[1] % (RAND_MAX + 1)

(***************************************************************************)
(* The files.  fopen(path, "r") succeeds when the file exists, and         *)
(* fopen(path, "a") when the path names a file of the file system, which   *)
(* the empty path does not.                                                *)
(***************************************************************************)
Paths == {DefaultOut, "out.csv"}
FileOf(path) == IF path \in DOMAIN fs THEN fs[path] ELSE NoFile
FopenRead(path) == FileOf(path).exists
FopenAppend(path) == path \in DOMAIN fs

\* the file system after fopen(path, "a") succeeded: the file exists
Created(path) ==
    [fs EXCEPT ![path] = IF fs[path].exists THEN fs[path] ELSE File(<<>>)]

\* the file system after the lines buffered in a stream reached its file
Flushed(files, path, buf) ==
    [files EXCEPT ![path] = File(files[path].lines \o buf)]

(***************************************************************************)
(* The platform's metrics.  An API call may fail while fewer than          *)
(* MaxFaults calls have failed; a failed call leaves its output variables  *)
(* as they were, uninitialized, and what the caller reads from them is     *)
(* any value, one of Indeterminate here.                                   *)
(***************************************************************************)
MaxFaults == 1
Indeterminate == {0, 9}
ProcessorCounts == {0, 2}
LocalTime == [wDay |-> 3, wMonth |-> 11, wHour |-> 22, wMinute |-> 38]

MayFail(k) == faults + k <= MaxFaults

\* the working set, in MiB: the process image and the live buffers
WorkingSetMiB == 1 + Cardinality(heap)

\* benchmark.c:33-38
now_sec(ok, garbage) == IF ok THEN clk ELSE garbage

\* benchmark.c:44-57
proc_cpu_seconds(ok, garbage) == IF ok THEN cpu_time ELSE garbage

\* benchmark.c:63-68
logical_cpus(np) == IF np > 0 THEN np ELSE 1

\* benchmark.c:74-80
current_mem_mib(ok) == IF ok THEN WorkingSetMiB ELSE 0

DigitChar(d) == CHOOSE c \in DOMAIN DigitVal : DigitVal[c] = d
Pad2(v) == <<DigitChar((v \div 10) % 10), DigitChar(v % 10)>>

\* benchmark.c:106-111  "%02d/%02d/%02d/%02d"
run_id_str(st) ==
    Pad2(st.wDay) \o <<"/">> \o Pad2(st.wMonth) \o <<"/">> \o Pad2(st.wHour)
                  \o <<"/">> \o Pad2(st.wMinute)

\* benchmark.c:197-200  the derived values of a run.  A quotient is kept as
\* numerator and denominator; a zero denominator is the run's inf or NaN.
Metrics(s) ==
    LET wall == s.t1 - s.t0
    IN [time_ms  |-> wall,
        cpu_pct  |-> [num |-> 100 * (s.cpu1 - s.cpu0), den |-> wall * ncpu],
        peak_mib |-> IF s.mem_after > s.mem_before THEN s.mem_after ELSE s.mem_before]

\* benchmark.c:208  "%s;%s;%d;%d;%.3f;%.1f;%.2f\n"
RecordLine ==
    [kind |-> "record", run_id |-> run_id, language |-> "C", size |-> n,
     run_idx |-> r, time_ms |-> Metrics(smp).time_ms,
     cpu_pct |-> Metrics(smp).cpu_pct, peak_mib |-> Metrics(smp).peak_mib]

\* benchmark.c:203  "n=%d run=%d time=%.2f ms CPU=%.1f%% MEM=%.2f MiB\n"
ConsoleLine ==
    [size |-> n, run |-> r, time_ms |-> Metrics(smp).time_ms,
     cpu_pct |-> Metrics(smp).cpu_pct, peak_mib |-> Metrics(smp).peak_mib]

(***************************************************************************)
(* main: the sweep, benchmark.c:154-220                                    *)
(***************************************************************************)
\* the process ends abnormally, having executed the undefined behaviour what
Crash(what) == pc' = "crashed" /\ ub' = ub \cup what

\* benchmark.c:155  srand(seed)
Srand ==
    /\ pc = "srand"
    /\ holdrand' = SrandState(seed)
    /\ srand_calls' = srand_calls + 1
    /\ pc' = "header"
    /\ UNCHANGED <<argv, disk0, p, sizes, nsizes, runs, out, seed, draws, fs, f,
                   run_id, ncpu, si, n, A, B, C, heap, i, r, smp, clk,
                   cpu_time, faults, failed, console, exit_status, ub>>
    /\ UNCHANGED kernelVars

\* benchmark.c:86-97  the file system after write_header_if_needed(path), and
\* whether fputs was handed the null stream of a failed fopen
write_header_if_needed(path) ==
    IF FopenRead(path) THEN [fs |-> fs, null_stream |-> FALSE]
    ELSE IF FopenAppend(path)
    THEN [fs |-> Flushed(Created(path), path, <<HEADER>>), null_stream |-> FALSE]
    ELSE [fs |-> fs, null_stream |-> TRUE]

\* benchmark.c:158
PrepareSink ==
    /\ pc = "header"
    /\ LET res == write_header_if_needed(out)
       IN /\ fs' = res.fs
          /\ IF res.null_stream
             THEN Crash({<<"null_stream", "f">>})
             ELSE pc' = "session" /\ ub' = ub
    /\ UNCHANGED <<argv, disk0, p, sizes, nsizes, runs, out, seed, holdrand,
                   srand_calls, draws, f, run_id, ncpu, si, n, A, B, C, heap,
                   i, r, smp, clk, cpu_time, faults, failed, console,
                   exit_status>>
    /\ UNCHANGED kernelVars

\* benchmark.c:161-164
StartSession ==
    /\ pc = "session"
    /\ run_id' = run_id_str(LocalTime)
    /\ \E np \in ProcessorCounts :
          /\ np = 0 => MayFail(1)
          /\ ncpu' = logical_cpus(np)
          /\ faults' = IF np = 0 THEN faults + 1 ELSE faults
          /\ failed' = IF np = 0 THEN {"ncpu"} ELSE {}
    /\ si' = 0
    /\ pc' = "size_loop"
    /\ UNCHANGED <<argv, disk0, p, sizes, nsizes, runs, out, seed, holdrand,
                   srand_calls, draws, fs, f, n, A, B, C, heap, i, r, smp,
                   clk, cpu_time, console, exit_status, ub>>
    /\ UNCHANGED kernelVars

\* benchmark.c:167-168  the loop condition, and int n = sizes[si]
SizeLoop ==
    /\ pc = "size_loop"
    /\ IF si < nsizes
       THEN n' = sizes[si + 1] /\ pc' = "alloc"
       ELSE n' = n /\ pc' = "return"
    /\ UNCHANGED <<argv, disk0, p, sizes, nsizes, runs, out, seed, holdrand,
                   srand_calls, draws, fs, f, run_id, ncpu, si, A, B, C,
                   heap, i, r, smp, clk, cpu_time, faults, failed, console,
                   exit_status, ub>>
    /\ UNCHANGED kernelVars

\* benchmark.c:171-173  each malloc returns a block or NULL
Allocate ==
    /\ pc = "alloc"
    /\ \E okA, okB, okC \in BOOLEAN :
          /\ A' = IF okA THEN Block(AllocBytes(n)) ELSE NullBuf
          /\ B' = IF okB THEN Block(AllocBytes(n)) ELSE NullBuf
          /\ C' = IF okC THEN Block(AllocBytes(n)) ELSE NullBuf
          /\ heap' = heap \cup Flag(okA, "A") \cup Flag(okB, "B") \cup Flag(okC, "C")
    /\ i' = 0
    /\ pc' = "fill"
    /\ UNCHANGED <<argv, disk0, p, sizes, nsizes, runs, out, seed, holdrand,
                   srand_calls, draws, fs, f, run_id, ncpu, si, n, r, smp,
                   clk, cpu_time, faults, failed, console, exit_status, ub>>
    /\ UNCHANGED kernelVars

Draw(buf, idx, h) == [si |-> si, buf |-> buf, idx |-> idx, val |-> RandValue(h)]

\* B[i] is assigned before A[i]
FillOrderSwapped == <<"B", "A">>

\* benchmark.c:177-178  the buffers the two statements of the loop body
\* store to, in statement order
FillOrder == <<"A", "B">>

\* benchmark.c:176-179  one evaluation of i < n * n and, when it holds, one
\* iteration of the body: each statement calls rand() and stores what it
\* returned.  An overflowing n * n either traps or wraps; a store through a
\* null pointer or outside its block ends the process there.
FillStep ==
    /\ pc = "fill"
    /\ LET nn == IntMul(n, n)
           h1 == RandNext(holdrand)
           h2 == RandNext(h1)
           first == FillOrder[1]
           second == FillOrder[2]
           Buf(name) == IF name = "A" THEN A ELSE B
           fault1 == WriteFault(Buf(first), i, first)
           fault2 == WriteFault(Buf(second), i, second)
           Stored(name) ==
               IF name = first
               THEN (IF fault1 = {} THEN Store(Buf(name), i, RandValue(h1)) ELSE Buf(name))
               ELSE (IF fault1 = {} /\ fault2 = {}
                     THEN Store(Buf(name), i, RandValue(h2)) ELSE Buf(name))
       IN \E outcome \in (IF nn.ovf THEN {"wrap", "trap"} ELSE {"defined"}) :
             IF outcome = "trap"
             THEN /\ Crash({Overflow})
                  /\ UNCHANGED <<A, B, holdrand, draws, i, r>>
             ELSE IF i < nn.val
             THEN /\ A' = Stored("A")
                  /\ B' = Stored("B")
                  /\ holdrand' = IF fault1 = {} THEN h2 ELSE h1
                  /\ draws' = draws \o <<Draw(first, i, h1)>>
                                    \o (IF fault1 = {} THEN <<Draw(second, i, h2)>> ELSE <<>>)
                  /\ IF fault1 \cup fault2 = {}
                     THEN /\ i' = i + 1
                          /\ pc' = pc
                          /\ ub' = ub \cup Flag(nn.ovf, Overflow)
                     ELSE /\ i' = i
                          /\ Crash(Flag(nn.ovf, Overflow)
                                     \cup (IF fault1 # {} THEN fault1 ELSE fault2))
                  /\ r' = r
             ELSE /\ pc' = "run_loop"
                  /\ r' = 1
                  /\ ub' = ub \cup Flag(nn.ovf, Overflow)
                  /\ UNCHANGED <<A, B, holdrand, draws, i>>
    /\ UNCHANGED <<argv, disk0, p, sizes, nsizes, runs, out, seed,
                   srand_calls, fs, f, run_id, ncpu, si, n, C, heap, smp,
                   clk, cpu_time, faults, failed, console, exit_status>>
    /\ UNCHANGED kernelVars

\* r < runs instead of r <= runs
RunCondStrict(run, count) == run < count

\* benchmark.c:182  r <= runs
RunCond(run, count) == run <= count

\* benchmark.c:182  the loop condition
RunLoop ==
    /\ pc = "run_loop"
    /\ IF RunCond(r, runs)
       THEN pc' = "before" /\ failed' = failed \cap {"ncpu"}
       ELSE pc' = "free" /\ failed' = failed
    /\ UNCHANGED <<argv, disk0, p, sizes, nsizes, runs, out, seed, holdrand,
                   srand_calls, draws, fs, f, run_id, ncpu, si, n, A, B, C,
                   heap, i, r, smp, clk, cpu_time, faults, console,
                   exit_status, ub>>
    /\ UNCHANGED kernelVars

\* benchmark.c:184-186
MeasureBefore ==
    /\ pc = "before"
    /\ \E bad \in SUBSET {"mem_before", "cpu0", "t0"} : \E gc, gt \in Indeterminate :
          /\ MayFail(Cardinality(bad))
          /\ "cpu0" \notin bad => gc = 0
          /\ "t0" \notin bad => gt = 0
          /\ smp' = [smp EXCEPT !.mem_before = current_mem_mib("mem_before" \notin bad),
                                !.cpu0 = proc_cpu_seconds("cpu0" \notin bad, gc),
                                !.t0 = now_sec("t0" \notin bad, gt)]
          /\ faults' = faults + Cardinality(bad)
          /\ failed' = (failed \cap {"ncpu"}) \cup bad
    /\ pc' = "invoke"
    /\ UNCHANGED <<argv, disk0, p, sizes, nsizes, runs, out, seed, holdrand,
                   srand_calls, draws, fs, f, run_id, ncpu, si, n, A, B, C,
                   heap, i, r, clk, cpu_time, console, exit_status, ub>>
    /\ UNCHANGED kernelVars

\* benchmark.c:189  the kernel runs to its end, and time passes; an invalid
\* access (its first is to cell 0 of the buffer) ends the process
Invoke ==
    /\ pc = "invoke"
    /\ LET res == matrix_multiplication(A, B, C, n)
       IN IF res.ub = {}
          THEN /\ C' = res.C
               /\ clk' = clk + 1
               /\ cpu_time' = cpu_time + 1
               /\ pc' = "after"
               /\ ub' = ub
          ELSE /\ Crash(res.ub)
               /\ UNCHANGED <<C, clk, cpu_time>>
    /\ UNCHANGED <<argv, disk0, p, sizes, nsizes, runs, out, seed, holdrand,
                   srand_calls, draws, fs, f, run_id, ncpu, si, n, A, B,
                   heap, i, r, smp, faults, failed, console, exit_status>>
    /\ UNCHANGED kernelVars

\* benchmark.c:192-194
MeasureAfter ==
    /\ pc = "after"
    /\ \E bad \in SUBSET {"t1", "cpu1", "mem_after"} : \E gc, gt \in Indeterminate :
          /\ MayFail(Cardinality(bad))
          /\ "cpu1" \notin bad => gc = 0
          /\ "t1" \notin bad => gt = 0
          /\ smp' = [smp EXCEPT !.t1 = now_sec("t1" \notin bad, gt),
                                !.cpu1 = proc_cpu_seconds("cpu1" \notin bad, gc),
                                !.mem_after = current_mem_mib("mem_after" \notin bad)]
          /\ faults' = faults + Cardinality(bad)
          /\ failed' = failed \cup bad
    /\ pc' = "report"
    /\ UNCHANGED <<argv, disk0, p, sizes, nsizes, runs, out, seed, holdrand,
                   srand_calls, draws, fs, f, run_id, ncpu, si, n, A, B, C,
                   heap, i, r, clk, cpu_time, console, exit_status, ub>>
    /\ UNCHANGED kernelVars

\* benchmark.c:197-204
Report ==
    /\ pc = "report"
    /\ console' = Append(console, ConsoleLine)
    /\ pc' = "open"
    /\ UNCHANGED <<argv, disk0, p, sizes, nsizes, runs, out, seed, holdrand,
                   srand_calls, draws, fs, f, run_id, ncpu, si, n, A, B, C,
                   heap, i, r, smp, clk, cpu_time, faults, failed,
                   exit_status, ub>>
    /\ UNCHANGED kernelVars

\* benchmark.c:207  fopen(out, "a")
OpenSink ==
    /\ pc = "open"
    /\ IF FopenAppend(out)
       THEN fs' = Created(out) /\ f' = [open |-> TRUE, path |-> out, buf |-> <<>>]
       ELSE fs' = fs /\ f' = NULL
    /\ pc' = "write"
    /\ UNCHANGED <<argv, disk0, p, sizes, nsizes, runs, out, seed, holdrand,
                   srand_calls, draws, run_id, ncpu, si, n, A, B, C, heap, i,
                   r, smp, clk, cpu_time, faults, failed, console,
                   exit_status, ub>>
    /\ UNCHANGED kernelVars

\* benchmark.c:208  fprintf(f, ...)
WriteRecord ==
    /\ pc = "write"
    /\ IF f.open
       THEN f' = [f EXCEPT !.buf = Append(f.buf, RecordLine)] /\ pc' = "close" /\ ub' = ub
       ELSE f' = f /\ Crash({<<"null_stream", "f">>})
    /\ UNCHANGED <<argv, disk0, p, sizes, nsizes, runs, out, seed, holdrand,
                   srand_calls, draws, fs, run_id, ncpu, si, n, A, B, C,
                   heap, i, r, smp, clk, cpu_time, faults, failed, console,
                   exit_status>>
    /\ UNCHANGED kernelVars

\* benchmark.c:210 and the ++r of line 182
CloseSink ==
    /\ pc = "close"
    /\ fs' = Flushed(fs, f.path, f.buf)
    /\ f' = NULL
    /\ r' = r + 1
    /\ pc' = "run_loop"
    /\ UNCHANGED <<argv, disk0, p, sizes, nsizes, runs, out, seed, holdrand,
                   srand_calls, draws, run_id, ncpu, si, n, A, B, C, heap, i,
                   smp, clk, cpu_time, faults, failed, console, exit_status,
                   ub>>
    /\ UNCHANGED kernelVars

\* free(C) is forgotten
FreeWithoutC ==
    /\ pc = "free"
    /\ heap' = heap \ {"A", "B"}
    /\ A' = NullBuf /\ B' = NullBuf /\ C' = C
    /\ si' = si + 1
    /\ pc' = "size_loop"
    /\ UNCHANGED <<argv, disk0, p, sizes, nsizes, runs, out, seed, holdrand,
                   srand_calls, draws, fs, f, run_id, ncpu, n, i, r, smp,
                   clk, cpu_time, faults, failed, console, exit_status, ub>>
    /\ UNCHANGED kernelVars

\* benchmark.c:214-216 and the ++si of line 167
Free ==
    /\ pc = "free"
    /\ heap' = heap \ {"A", "B", "C"}
    /\ A' = NullBuf /\ B' = NullBuf /\ C' = NullBuf
    /\ si' = si + 1
    /\ pc' = "size_loop"
    /\ UNCHANGED <<argv, disk0, p, sizes, nsizes, runs, out, seed, holdrand,
                   srand_calls, draws, fs, f, run_id, ncpu, n, i, r, smp,
                   clk, cpu_time, faults, failed, console, exit_status, ub>>
    /\ UNCHANGED kernelVars

\* benchmark.c:219
Return ==
    /\ pc = "return"
    /\ exit_status' = <<0>>
    /\ pc' = "done"
    /\ UNCHANGED <<argv, disk0, p, sizes, nsizes, runs, out, seed, holdrand,
                   srand_calls, draws, fs, f, run_id, ncpu, si, n, A, B, C,
                   heap, i, r, smp, clk, cpu_time, faults, failed, console,
                   ub>>
    /\ UNCHANGED kernelVars

(***************************************************************************)
(* A direct call of the kernel on caller-supplied matrices.                *)
(***************************************************************************)
KernelCall ==
    /\ kpc = "call"
    /\ LET res == matrix_multiplication(kA, kB, kC, kn)
       IN kC' = res.C /\ kub' = res.ub
    /\ kpc' = "returned"
    /\ UNCHANGED <<kn, kA, kB>>
    /\ UNCHANGED harnessVars

(***************************************************************************)
(* Initial states.                                                         *)
(***************************************************************************)
NoSamples == [mem_before |-> 0, cpu0 |-> 0, t0 |-> 0, t1 |-> 0, cpu1 |-> 0,
              mem_after |-> 0]

\* main is entered with the command line args and the file system disk
Start(args, disk, at) ==
    /\ pc = at
    /\ argv = args
    /\ fs = disk
    /\ disk0 = disk
    /\ p = 0
    /\ sizes = <<>>
    /\ nsizes = 0
    /\ runs = DefaultRuns
    /\ out = DefaultOut
    /\ seed = DefaultSeed
    /\ holdrand = SrandState(1)
    /\ srand_calls = 0
    /\ draws = <<>>
    /\ f = NULL
    /\ run_id = <<>>
    /\ ncpu = 0
    /\ si = 0
    /\ n = 0
    /\ A = NullBuf /\ B = NullBuf /\ C = NullBuf
    /\ heap = {}
    /\ i = 0
    /\ r = 0
    /\ smp = NoSamples
    /\ clk = 1
    /\ cpu_time = 1
    /\ faults = 0
    /\ failed = {}
    /\ console = <<>>
    /\ exit_status = <<>>
    /\ ub = {}

NoKernelCall ==
    kpc = "off" /\ kn = 0 /\ kA = NullBuf /\ kB = NullBuf /\ kC = NullBuf /\ kub = {}

NoDisk == [q \in Paths |-> NoFile]
Junk == [kind |-> "text", text |-> "junk\n"]
OldRecord == [kind |-> "record", run_id |-> run_id_str(LocalTime), language |-> "C",
              size |-> 64, run_idx |-> 1, time_ms |-> 1,
              cpu_pct |-> [num |-> 100, den |-> 2], peak_mib |-> 4]
PriorFiles == {File(<<>>), File(<<HEADER>>), File(<<HEADER, OldRecord>>), File(<<Junk>>)}
Disks == {NoDisk} \cup {[q \in Paths |-> IF q = t THEN c ELSE NoFile] :
                            t \in Paths, c \in PriorFiles}

\* the command lines of the sweeps: size lists whose sizes a sweep can be
\* followed through, with and without the later arguments
SweepLists ==
    {<<"0">>, <<"1">>, <<"2">>, <<"1", ",", "2">>, <<"2", ",", "0">>, <<"-", "1">>,
     <<"a", ",", "1">>, <<"2", ",">>, <<"-", "4", "6", "3", "4", "1">>}
RunArgs == {<<>>, <<"0">>, <<"1">>, <<"2">>, <<"-", "1">>}
SweepCmdLines ==
    {<<s>> : s \in SweepLists}
    \cup {<<s, a2>> : s \in {<<"1", ",", "2">>, <<"0">>}, a2 \in RunArgs}
    \cup {<<<<"2">>, <<"1">>, a3>> : a3 \in {"", "out.csv"}}
    \cup {<<<<"1", ",", "2">>, <<"2">>, "out.csv", a4>> : a4 \in {<<>>, <<"7">>}}
SinkCmdLines ==
    {<<<<"1">>>>, <<<<"0">>, <<"0">>>>, <<<<"2">>, <<"1">>, "out.csv">>}

Init ==
    /\ \/ \E args \in SweepCmdLines : Start(args, NoDisk, "args")
       \/ \E args \in SinkCmdLines : \E disk \in Disks : Start(args, disk, "args")
    /\ NoKernelCall

\* the command lines of the configuration: every size list of at most
\* MaxArgLen characters, lists of about MaxSizes sizes, and every
\* combination of a few later arguments
MaxArgLen == 3
ConfigChars == {"4", "8", ",", "a", "-", " "}
Strings(len) == UNION {[1..m -> ConfigChars] : m \in 0..len}
LongList(m) == [j \in 1..(2 * m - 1) |-> IF j % 2 = 1 THEN "1" ELSE ","]
LongLists == {LongList(MaxSizes + d) : d \in {-1, 0, 1, 2}}
                 \cup {LongList(MaxSizes) \o <<",">>}
WideNumbers == {[j \in 1..11 |-> "9"], <<"-">> \o [j \in 1..11 |-> "9"],
                <<"2", "1", "4", "7", "4", "8", "3", "6", "4", "7">>,
                <<"-", "2", "1", "4", "7", "4", "8", "3", "6", "4", "8", ",", "7">>}
NumArgs == {<<>>, <<"5">>, <<"-", "4">>, <<"a">>, <<"4", "8", "a">>}
ConfigCmdLines ==
    {<<>>}
    \cup {<<s>> : s \in Strings(MaxArgLen) \cup LongLists \cup WideNumbers}
    \cup {<<s, a2>> : s \in {<<>>, <<"4", ",", "8">>}, a2 \in NumArgs}
    \cup {<<s, a2, a3>> : s \in {<<>>, <<"4">>}, a2 \in {<<>>, <<"5">>},
                          a3 \in {"", "out.csv"}}
    \cup {<<s, a2, a3, a4>> : s \in {<<>>, <<"4">>}, a2 \in {<<>>, <<"5">>},
                              a3 \in {"", "out.csv"}, a4 \in NumArgs}

InitConfig ==
    /\ \E args \in ConfigCmdLines : Start(args, NoDisk, "args")
    /\ NoKernelCall

\* the matrices of the direct kernel calls, for n up to MaxN and entries up
\* to MaxEntry: every pair of pattern matrices (one non-zero cell, the same
\* value in every cell, 1, 2, 3, ... in row-major order); for n up to 2
\* every filling of A with every pattern B; the example of matrix_mult.h
MaxN == 2
MaxEntry == 2
Cells(m) == 0..(m * m - 1)
Mat(m, d) == [Block(AllocBytes(m)) EXCEPT !.data = d]
AnyMatrices(m) == [Cells(m) -> 0..MaxEntry]
PatternMatrices(m) ==
    {[x \in Cells(m) |-> IF x = q THEN v ELSE 0] : q \in Cells(m), v \in 1..MaxEntry}
        \cup {[x \in Cells(m) |-> v] : v \in 0..MaxEntry}
        \cup {[x \in Cells(m) |-> x + 1]}
ExampleA == [x \in Cells(2) |-> x + 1]
ExampleB == [x \in Cells(2) |-> x + 5]
KernelInputs ==
    UNION {{<<m, a, b>> : a \in PatternMatrices(m), b \in PatternMatrices(m)} :
           m \in 0..MaxN}
        \cup UNION {{<<m, a, b>> : a \in AnyMatrices(m), b \in PatternMatrices(m)} :
                    m \in {x \in 0..MaxN : x <= 2}}
        \cup {<<2, ExampleA, ExampleB>>}

InitKernel ==
    /\ \E inp \in KernelInputs :
          /\ kn = inp[1]
          /\ kA = Mat(inp[1], inp[2])
          /\ kB = Mat(inp[1], inp[3])
          /\ kC = Block(AllocBytes(inp[1]))
    /\ kpc = "call"
    /\ kub = {}
    /\ Start(<<>>, NoDisk, "off")

(***************************************************************************)
(* Specifications.                                                         *)
(***************************************************************************)
NextConfig ==
    \/ ParseBegin
    \/ ParseToken
    \/ DefaultSizes
    \/ ParseRuns
    \/ ParseOut
    \/ ParseSeed

Next ==
    \/ NextConfig
    \/ Srand
    \/ PrepareSink
    \/ StartSession
    \/ SizeLoop
    \/ Allocate
    \/ FillStep
    \/ RunLoop
    \/ MeasureBefore
    \/ Invoke
    \/ MeasureAfter
    \/ Report
    \/ OpenSink
    \/ WriteRecord
    \/ CloseSink
    \/ Free
    \/ Return

NextKernel == KernelCall

\* a run of the benchmark on a command line whose sizes are small
Spec == Init /\ [][Next]_vars

\* the sweeps followed to their end
LiveCmdLines == {<<<<"1", ",", "0">>, <<"2">>>>, <<<<"0", ",", "1">>, <<"2">>>>, <<<<"0">>>>}
InitLive ==
    /\ \E args \in LiveCmdLines : Start(args, NoDisk, "args")
    /\ NoKernelCall

\* a run of the benchmark in which the process always takes its next step
FairSpec == InitLive /\ [][Next]_vars /\ WF_vars(Next)

\* the configuration of the benchmark on any command line
SpecConfig == InitConfig /\ [][NextConfig]_vars

\* a call of the kernel on any matrices
SpecKernel == InitKernel /\ [][NextKernel]_vars

(***************************************************************************)
(* C1.  The kernel computes the matrix product.                            *)
(***************************************************************************)
RECURSIVE SumTo(_, _, _, _, _, _)
\* the sum over k = 0..last of a[row,k] * b[k,col], for m-by-m a and b
SumTo(a, b, m, row, col, last) ==
    IF last < 0 THEN 0
    ELSE SumTo(a, b, m, row, col, last - 1) + a[row * m + last] * b[last * m + col]

\* the (row, col) entry of the product of the m-by-m matrices a and b
ProductEntry(a, b, m, row, col) == SumTo(a, b, m, row, col, m - 1)

\* C1: after matrix_multiplication(A, B, C, n) returns, for every n >= 0 and
\* all n-by-n matrices A and B, every cell C[i*n+j] with 0 <= i, j < n holds
\* the sum over k = 0..n-1 of A[i*n+k] * B[k*n+j], and the call executed no
\* undefined behaviour; A = [[1,2],[3,4]], B = [[5,6],[7,8]] gives
\* C = [[19,22],[43,50]].
C1_KernelComputesProduct ==
    kpc = "returned" =>
        /\ kub = {}
        /\ \A row \in 0..(kn - 1), col \in 0..(kn - 1) :
              /\ row * kn + col \in DOMAIN kC.data
              /\ kC.data[row * kn + col]
                     = Wide(ProductEntry(kA.data, kB.data, kn, row, col))
        /\ (kn = 2 /\ kA.data = ExampleA /\ kB.data = ExampleB) =>
              kC.data = [x \in Cells(2) |-> Wide(<<19, 22, 43, 50>>[x + 1])]

\* the kernel has returned from the call on the example of matrix_mult.h
C1_Witness ==
    /\ kpc = "returned"
    /\ kn = 2
    /\ kA.data = ExampleA
    /\ kB.data = ExampleB
    /\ kC.data[0] = Wide(19)
    /\ kC.data[3] = Wide(50)

(***************************************************************************)
(* C2.  The records of a completed sweep.                                  *)
(***************************************************************************)
RECURSIVE ExpectedRecords(_)
\* <<size, run>> for the sizes from the k-th on, each with the runs 1..runs
ExpectedRecords(k) ==
    IF k > nsizes THEN <<>>
    ELSE (IF runs < 1 THEN <<>> ELSE [j \in 1..runs |-> <<sizes[k], j>>])
             \o ExpectedRecords(k + 1)

\* C2: a completed sweep that started with no output file leaves the file
\* holding the header line followed, for each size of the resolved list in
\* list order, by one record for each run index 1..runs in increasing
\* order (none when runs < 1), and nothing else.
C2_SweepRecords ==
    (pc = "done" /\ ~disk0[out].exists) =>
        LET lines == fs[out].lines
            expected == ExpectedRecords(1)
        IN /\ fs[out].exists
           /\ Len(lines) = 1 + Len(expected)
           /\ lines[1] = HEADER
           /\ \A q \in 1..Len(expected) :
                 /\ lines[q + 1].kind = "record"
                 /\ <<lines[q + 1].size, lines[q + 1].run_idx>> = expected[q]

\* the sweep of the sizes 1,2 with 2 runs each has completed
C2_Witness ==
    /\ pc = "done"
    /\ ~disk0[out].exists
    /\ sizes = <<1, 2>>
    /\ runs = 2
    /\ Len(fs[out].lines) = 5
    /\ [q \in 1..4 |-> <<fs[out].lines[q + 1].size, fs[out].lines[q + 1].run_idx>>]
           = <<<<1, 1>>, <<1, 2>>, <<2, 1>>, <<2, 2>>>>

(***************************************************************************)
(* C3.  The header after the sink was prepared.                            *)
(***************************************************************************)
\* C3: after write_header_if_needed returned, the destination file exists
\* and its first line is the header line, whatever was there before.
C3_HeaderAfterPrepare ==
    pc = "session" =>
        /\ FileOf(out).exists
        /\ FileOf(out).lines # <<>>
        /\ FileOf(out).lines[1] = HEADER

(***************************************************************************)
(* C6.  The order in which the fills consume the rand() stream.            *)
(***************************************************************************)
RECURSIVE StateAfter(_, _)
\* the state of rand() after srand(sd) and q calls
StateAfter(sd, q) == IF q = 0 THEN SrandState(sd) ELSE RandNext(StateAfter(sd, q - 1))

\* how many draws of the same size precede the q-th draw
OffsetInSize(q) ==
    Cardinality({q2 \in 1..(q - 1) : draws[q2].si = draws[q].si})

\* the generator was seeded exactly once before the first draw, with the
\* configured seed, and the draws are consecutive values of that one stream
SeededOnce ==
    /\ srand_calls <= 1
    /\ draws # <<>> => srand_calls = 1
    /\ \A q \in 1..Len(draws) : draws[q].val = RandValue(StateAfter(seed, q))
    /\ \A q \in 2..Len(draws) : draws[q - 1].si <= draws[q].si

\* what the buffers hold is what the draws stored
CellsHoldDraws ==
    pc \in {"fill", "run_loop", "before", "invoke", "after", "report", "open",
            "write", "close", "free"} =>
        /\ \A x \in DOMAIN A.data :
              \E q \in 1..Len(draws) :
                  draws[q] = [si |-> si, buf |-> "A", idx |-> x, val |-> A.data[x]]
        /\ \A x \in DOMAIN B.data :
              \E q \in 1..Len(draws) :
                  draws[q] = [si |-> si, buf |-> "B", idx |-> x, val |-> B.data[x]]

\* C6 as claimed: the generator is seeded once and never reseeded, and the
\* k-th draw of a size goes to A[k] for k < n*n and to B[k - n*n] after that.
C6_AThenBOrder ==
    /\ SeededOnce
    /\ \A q \in 1..Len(draws) :
          LET k == OffsetInSize(q)
              m == sizes[draws[q].si + 1]
              nn == IntMul(m, m).val
          IN IF k < nn
             THEN draws[q].buf = "A" /\ draws[q].idx = k
             ELSE draws[q].buf = "B" /\ draws[q].idx = k - nn

\* C6 as amended: the generator is seeded once before any fill and never
\* reseeded, sizes are filled in list order, and within a size the draws
\* alternate: draw 2k goes to A[k] and draw 2k+1 to B[k].
C6_InterleavedOrder ==
    /\ SeededOnce
    /\ CellsHoldDraws
    /\ \A q \in 1..Len(draws) :
          LET k == OffsetInSize(q)
          IN /\ draws[q].buf = (IF k % 2 = 0 THEN "A" ELSE "B")
             /\ draws[q].idx = k \div 2

\* the matrices of size 2 have been filled
C6_Witness ==
    /\ pc = "run_loop"
    /\ n = 2
    /\ DOMAIN A.data = 0..3
    /\ DOMAIN B.data = 0..3
    /\ Len(draws) >= 8
    /\ draws[Len(draws)].buf = "B"
    /\ draws[Len(draws)].idx = 3
    /\ draws[Len(draws) - 6].buf = "B"
    /\ draws[Len(draws) - 6].idx = 0

(***************************************************************************)
(* C7, C8, C10.  Failed allocations, failed metric calls, indices.         *)
(***************************************************************************)
\* C7: no fill, kernel invocation or record write reads or writes through
\* a buffer whose allocation failed.
C7_NoAccessThroughFailedBuffer ==
    \A e \in ub : e[1] \notin {"null_write", "null_read"}

\* C8: a metric sample whose platform call failed is the default value, 0
\* (1 for the core count), and the process goes on.
C8_FailedSampleIsDefault ==
    /\ \A x \in failed \ {"ncpu"} : smp[x] = 0
    /\ "ncpu" \in failed => ncpu = 1

\* C10: for every size the harness passes, no index computation of the fill
\* loop or the kernel overflows int, and every index used on an allocated
\* buffer lies inside it.
C10_IndicesInBoundsNoOverflow ==
    \A e \in ub : e[1] \notin {"signed_overflow", "oob_write", "oob_read"}

(***************************************************************************)
(* C9.  The order of the events of a sweep.                                *)
(***************************************************************************)
\* the steps that may follow each step of the sweep; "crashed" is the
\* abnormal end of the process
Follows ==
    [size_loop |-> {"alloc", "return"},
     alloc     |-> {"fill"},
     fill      |-> {"fill", "run_loop", "crashed"},
     run_loop  |-> {"before", "free"},
     before    |-> {"invoke"},
     invoke    |-> {"after", "crashed"},
     after     |-> {"report"},
     report    |-> {"open"},
     open      |-> {"write"},
     write     |-> {"close", "crashed"},
     close     |-> {"run_loop"},
     free      |-> {"size_loop"},
     return    |-> {"done"}]

\* the records this process has appended to its output file
Appended ==
    Len(fs[out].lines) - Len(disk0[out].lines)
        - (IF disk0[out].exists THEN 0 ELSE 1)

\* the run count as a number of repetitions
Repetitions == IF runs < 1 THEN 0 ELSE runs

SweepOrder ==
    /\ pc \in {"size_loop", "alloc", "return", "done"} => heap = {}
    /\ pc = "alloc" => si < nsizes /\ n = sizes[si + 1]
    /\ pc \in {"before", "invoke", "after", "report", "open", "write", "close"} =>
          1 <= r /\ r <= runs
    /\ pc = "free" => r = Repetitions + 1 /\ Len(console) = (si + 1) * Repetitions
    /\ f.open => pc \in {"write", "close"}
    /\ pc = "write" /\ f.open => f.buf = <<>>
    /\ pc = "close" => f.open /\ Len(f.buf) = 1
    /\ pc \in {"size_loop", "alloc", "fill", "run_loop", "before", "invoke", "after",
               "report", "free", "return", "done"} =>
          Appended = Len(console)
    /\ pc \in {"open", "write", "close"} => Appended = Len(console) - 1
    /\ exit_status # <<>> => pc = "done"
    /\ pc = "done" =>
          /\ exit_status = <<0>>
          /\ si = nsizes
          /\ ~f.open
          /\ Len(console) = nsizes * Repetitions

SweepStep ==
    /\ pc \in DOMAIN Follows => pc' \in Follows[pc]
    /\ pc \in {"done", "crashed"} => pc' = pc
    /\ pc = "run_loop" /\ pc' = "before" => r <= runs
    /\ pc = "run_loop" /\ pc' = "free" => r > runs
    /\ pc = "size_loop" /\ pc' = "return" => si = nsizes
    /\ pc = "free" => si' = si + 1 /\ heap' = {}
    /\ pc = "close" => r' = r + 1 /\ ~f'.open

\* C9: for every size the steps are Allocate, the fill, then runs
\* repetitions of sample, invoke, resample, report and append (the sink
\* opened before and closed after that one write), then Free; nothing is
\* allocated when the next size is allocated; a process that does not crash
\* ends with exit status 0, every size done and nothing allocated.
C9_SweepOrder ==
    /\ []SweepOrder
    /\ [][SweepStep]_vars
    /\ <>(pc \in {"done", "crashed"})
    /\ (pc = "alloc") ~> (pc = "crashed" \/ (pc = "size_loop" /\ heap = {}))
    /\ (pc = "return") ~> (pc = "done" /\ exit_status = <<0>> /\ heap = {})

\* the sweep of two sizes with 2 runs each has completed
C9_Witness ==
    /\ pc = "done"
    /\ nsizes = 2
    /\ runs = 2
    /\ Len(console) = 4
    /\ Appended = 4
    /\ exit_status = <<0>>
    /\ heap = {}

(***************************************************************************)
(* C4.  The defaults of the four arguments.                                *)
(***************************************************************************)
\* C4: once the command line is read, each of sizes, runs, out and seed has
\* its default when its argument is omitted and when it is the empty string.
C4_DefaultsWhenOmittedOrEmpty ==
    pc = "srand" =>
        /\ (argc <= 1 \/ argv[1] = <<>>) =>
               sizes = <<64, 128, 256, 512, 1024>> /\ nsizes = 5
        /\ (argc <= 2 \/ argv[2] = <<>>) => runs = 3
        /\ (argc <= 3 \/ argv[3] = "") => out = "results_raw.csv"
        /\ (argc <= 4 \/ argv[4] = <<>>) => seed = 27

(***************************************************************************)
(* C5.  The sizes parsed from the list.                                    *)
(***************************************************************************)
Commas(s) == {k \in 1..Len(s) : s[k] = ","}

\* the position of the t-th comma, 0 before the first and Len(s) + 1 after
\* the last
CommaAt(s, t) ==
    IF t = 0 THEN 0
    ELSE IF t > Cardinality(Commas(s)) THEN Len(s) + 1
    ELSE CHOOSE c \in Commas(s) : Cardinality({d \in Commas(s) : d <= c}) = t

\* the comma-separated tokens of s
Tokens(s) ==
    [t \in 1..(Cardinality(Commas(s)) + 1) |->
        SubSeq(s, CommaAt(s, t - 1) + 1, CommaAt(s, t) - 1)]

DecimalDigits == <<"0", "1", "2", "3", "4", "5", "6", "7", "8", "9">>
IsDecimalDigit(c) == \E v \in 1..10 : DecimalDigits[v] = c
ValueOfDigit(c) == (CHOOSE v \in 1..10 : DecimalDigits[v] = c) - 1

RECURSIVE NegatedValue(_)
\* minus the number the digits ds denote, no less than INT_MIN
NegatedValue(ds) ==
    IF ds = <<>> THEN 0
    ELSE LET hi == NegatedValue(SubSeq(ds, 1, Len(ds) - 1))
             d == ValueOfDigit(ds[Len(ds)])
         IN IF hi > -214748364 \/ (hi = -214748364 /\ d <= 8)
            THEN 10 * hi - d
            ELSE INT_MIN

\* the number a token starts with: blanks, an optional sign, digits; 0 when
\* there is no digit; the nearest 32-bit value when it does not fit
LeadingNumber(tok) ==
    LET blanks == Cardinality({k \in 1..Len(tok) : \A j \in 1..k : tok[j] = " "})
        signed == blanks < Len(tok) /\ tok[blanks + 1] \in {"-", "+"}
        first == blanks + (IF signed THEN 2 ELSE 1)
        nd == Cardinality({k \in first..Len(tok) :
                              \A j \in first..k : IsDecimalDigit(tok[j])})
        neg == NegatedValue(SubSeq(tok, first, first + nd - 1))
    IN IF signed /\ tok[blanks + 1] = "-" THEN neg
       ELSE IF neg = INT_MIN THEN INT_MAX
       ELSE -neg

\* a token that is a decimal numeral and nothing else
IsNumeral(tok) ==
    LET signed == tok # <<>> /\ tok[1] \in {"-", "+"}
        first == IF signed THEN 2 ELSE 1
    IN /\ first <= Len(tok)
       /\ \A j \in first..Len(tok) : IsDecimalDigit(tok[j])

Supplied == argc > 1 /\ argv[1] # <<>>

SizesAre(toks, value(_)) ==
    LET cnt == IF Len(toks) < 64 THEN Len(toks) ELSE 64
    IN /\ nsizes = cnt
       /\ Len(sizes) = cnt
       /\ \A t \in 1..cnt : sizes[t] = value(toks[t])

NumeralOrZero(tok) == IF IsNumeral(tok) THEN LeadingNumber(tok) ELSE 0

\* C5 as claimed: there is one size per comma-separated token, in order,
\* a token that is not a numeral (an empty one too) giving 0; at most 64
\* sizes are stored; the default list is used exactly when no list is given.
C5_OneSizePerToken ==
    /\ nsizes <= 64
    /\ pc = "srand" =>
          IF Supplied
          THEN SizesAre(Tokens(argv[1]), NumeralOrZero)
          ELSE sizes = <<64, 128, 256, 512, 1024>> /\ nsizes = 5

\* C5 as amended: there is one size per comma-separated token, in order,
\* except that an empty token after the last comma gives none; the size of
\* a token is the number it starts with (blanks, optional sign, digits;
\* limited to 32 bits), 0 when it starts with none; at most 64 sizes are
\* stored; the default list is used exactly when the list argument is
\* absent or empty.
C5_SizesFromTokens ==
    /\ nsizes <= 64
    /\ Len(sizes) = nsizes
    /\ pc = "srand" =>
          IF Supplied
          THEN LET toks == Tokens(argv[1])
                   kept == IF toks[Len(toks)] = <<>>
                           THEN SubSeq(toks, 1, Len(toks) - 1)
                           ELSE toks
               IN SizesAre(kept, LeadingNumber)
          ELSE sizes = <<64, 128, 256, 512, 1024>> /\ nsizes = 5

\* the list "4," has been parsed
C5_Witness ==
    /\ pc = "srand"
    /\ argv = <<<<"4", ",">>>>
    /\ sizes = <<4>>
    /\ nsizes = 1

====
